---- MODULE Spec2Model ----
(***************************************************************************)
(* Model of cneuromod_vg_utils: the bk2 movie replayer (replay.py) and the *)
(* media exporters (video.py).                                             *)
(*                                                                         *)
(* Python values are encoded as follows.  A bool is 0 or 1 (bool is an int *)
(* subtype, True == 1).  A list is a sequence.  A dict is a function whose *)
(* DOMAIN is its key set.  None is the record NoneVal.  The values of the  *)
(* repetition_variables dict are tagged records [t, v] because one dict    *)
(* holds strings, None and lists side by side.                             *)
(***************************************************************************)
EXTENDS Integers, Sequences, FiniteSets, TLC

VARIABLES
    \* ---- replay_bk2 (generator frame) ----
    movie,            \* the logged steps of the bk2 file, one input record per step
    players,          \* movie.players
    buttons,          \* emulator.buttons (len = emulator.num_buttons)
    skip_first_step,  \* argument of replay_bk2
    pc,               \* where the generator frame stands
    cursor,           \* the movie's internal step cursor
    movieOpen,        \* the retro.Movie handle is open
    emuOpen,          \* the emulator session is open
    log,              \* the calls made on the movie and the emulator, in order
    rec,              \* the record handed out by the last yield
    nyield,           \* number of records yielded by this generator
    history,          \* per skip_first_step value: records of a fully consumed replay
    \* ---- get_variables_from_replay (caller frame) ----
    gvr,              \* where get_variables_from_replay stands / how it ended
    replay_keys, replay_info, replay_frames,
    annotations,      \* the loop variable `annotations` (initially {})
    actionsVar,       \* the loop variable `actions` (unbound before the first record)
    warned,           \* logging.warning was called at line 82
    result,           \* the value returned at line 85, or the exception raised
    \* ---- reformat_info called on its own ----
    args,             \* the arguments [info, keys, bk2_fpath, actions]
    ret,              \* what the call returned or raised
    rpc,              \* "call" before, "done" after
    \* ---- make_mp4 ----
    mp4pc,            \* where make_mp4 stands
    nframes,          \* number of frames in selected_frames
    written,          \* frames handed to writer.writeFrame so far
    audio,            \* "None", or the dtype of the audio array
    sample_rate,      \* "None" or "rate"
    fs,               \* the files and directories that exist
    mux,              \* what the ffmpeg call did
    cleanup_failed,   \* an OSError was swallowed at lines 93-94
    outcome,          \* "running", "returned" or the exception that left make_mp4
    \* ---- make_gif / make_webp ----
    fn,               \* which exporter is called
    selected_frames,  \* its frames argument
    frame_list,       \* the converted images
    ipc,              \* where the exporter stands
    writes,           \* the files written, in order
    warnings,         \* number of logging.warning calls
    ioutcome          \* "running", "returned" or "raised"

gvars == <<movie, players, buttons, skip_first_step, pc, cursor, movieOpen,
           emuOpen, log, rec, nyield, history>>
cvars == <<gvr, replay_keys, replay_info, replay_frames, annotations,
           actionsVar, warned, result>>
rvars == <<args, ret, rpc>>
mvars == <<mp4pc, nframes, written, audio, sample_rate, fs, mux, cleanup_failed, outcome>>
ivars == <<fn, selected_frames, frame_list, ipc, writes, warnings, ioutcome>>
vars == <<gvars, cvars, rvars, mvars, ivars>>

\* ---------------------------------------------------------------- bounds
MaxSteps == 2      \* longest movie

\* tagged Python values
NoneVal == [t |-> "none", v |-> <<>>]
Unbound == [t |-> "unbound", v |-> <<>>]
Str(x) == [t |-> "str", v |-> x]
List(x) == [t |-> "list", v |-> x]
Ok(x) == [t |-> "ok", v |-> x]
Raise(kind) == [t |-> "raise", v |-> kind]
EmptyDict == [k \in {} |-> 0]

\* ------------------------------------------------------------ retro model
\* One logged step holds one button mask per player (player p at index p+1).
ButtonLists == { <<"B">>, <<"B", "A">> }
PlayerCounts == {1, 2}

RECURSIVE Pow2(_)
Pow2(n) == IF n = 0 THEN 1 ELSE 2 * Pow2(n - 1)

StepInputs(P, B) == [1..P -> 0..(Pow2(B) - 1)]

MoviesOf(P, B) == UNION { [1..n -> StepInputs(P, B)] : n \in 0..MaxSteps }

\* movie.get_key(i, p) on the step the cursor stands on
get_key(step, i, p) == (step[p + 1] \div Pow2(i)) % 2

\* the info mappings and done flags the emulator may report
InfoMaps == { [score |-> 2], [score |-> 3] }

Dones == {0, 1}

\* lines 39-42: for p in range(movie.players): for i in range(num_buttons): append
BuildKeysButtonMajor(step, P, B) ==
    [n \in 1..(P * B) |-> get_key(step, (n - 1) \div P, (n - 1) % P)]

BuildKeys(step, P, B) ==
    [n \in 1..(P * B) |-> get_key(step, (n - 1) % B, (n - 1) \div B)]

LogEntry(op, idx, keys) == [op |-> op, idx |-> idx, keys |-> keys]

NoRec == [frame |-> 0, keys |-> <<>>,
          annotations |-> [reward |-> 0, done |-> 0, info |-> <<>>],
          actions |-> <<>>]

\* history[b] = -1: no replay with skip_first_step = b has been fully consumed yet
NoHistory == [b \in BOOLEAN |-> -1]

\* ------------------------------------------------------------ replay_bk2
\* State right after `replay_bk2(...)` is called: a generator object whose
\* body has not started.
InitGen ==
    /\ players \in PlayerCounts
    /\ buttons \in ButtonLists
    /\ movie \in MoviesOf(players, Len(buttons))
    /\ skip_first_step \in BOOLEAN
    /\ pc = "created"
    /\ cursor = 0
    /\ movieOpen = FALSE
    /\ emuOpen = FALSE
    /\ log = <<>>
    /\ rec = NoRec
    /\ nyield = 0
    /\ history = NoHistory

\* lines 28-35: open the movie, make the emulator, attach the movie's state,
\* read the button names, reset.
Begin ==
    /\ pc = "l28"
    /\ movieOpen' = TRUE
    /\ emuOpen' = TRUE
    /\ cursor' = 0
    /\ log' = log \o << LogEntry("set_initial_state", 0, <<>>),
                        LogEntry("reset", 0, <<>>) >>
    /\ pc' = "l36"
    /\ UNCHANGED <<movie, players, buttons, skip_first_step, rec, nyield, history>>

\* line 32 raising (no integration data for the game): the movie is already open.
MakeFails ==
    /\ pc = "l28"
    /\ movieOpen' = TRUE
    /\ pc' = "raised"
    /\ UNCHANGED <<movie, players, buttons, skip_first_step, cursor, emuOpen,
                   log, rec, nyield, history>>

\* (variant) the flag is ignored
SkipFirstNoop ==
    /\ pc = "l36"
    /\ pc' = "l38"
    /\ UNCHANGED <<movie, players, buttons, skip_first_step, cursor, log, movieOpen,
                   emuOpen, rec, nyield, history>>

\* (variant) the skipped step's keys are handed to the emulator
SkipFirstFeeds ==
    /\ pc = "l36"
    /\ IF skip_first_step /\ cursor < Len(movie)
         THEN /\ cursor' = cursor + 1
              /\ log' = log \o << LogEntry("movie.step", cursor', <<>>),
                                  LogEntry("emulator.step", cursor',
                                           BuildKeys(movie[cursor'], players, Len(buttons))) >>
         ELSE UNCHANGED <<cursor, log>>
    /\ pc' = "l38"
    /\ UNCHANGED <<movie, players, buttons, skip_first_step, movieOpen, emuOpen,
                   rec, nyield, history>>

\* lines 36-37: `if skip_first_step: movie.step()`; movie.step() advances the
\* cursor when a step remains and returns whether it did.
SkipFirst ==
    /\ pc = "l36"
    /\ IF skip_first_step
         THEN /\ cursor' = IF cursor < Len(movie) THEN cursor + 1 ELSE cursor
              /\ log' = Append(log, LogEntry(IF cursor < Len(movie) THEN "movie.step"
                                                                      ELSE "movie.step.end",
                                              cursor', <<>>))
         ELSE UNCHANGED <<cursor, log>>
    /\ pc' = "l38"
    /\ UNCHANGED <<movie, players, buttons, skip_first_step, movieOpen, emuOpen,
                   rec, nyield, history>>

\* lines 38-46, movie.step() true and emulator.step returning: yield a record.
LoopYield ==
    /\ pc = "l38"
    /\ cursor < Len(movie)
    /\ cursor' = cursor + 1
    /\ \E done \in Dones, info \in InfoMaps :
         LET keys == BuildKeys(movie[cursor'], players, Len(buttons)) IN
         /\ log' = log \o << LogEntry("movie.step", cursor', <<>>),
                             LogEntry("emulator.step", cursor', keys) >>
         /\ rec' = [frame |-> nyield + 1, keys |-> keys,
                    annotations |-> [reward |-> 0, done |-> done, info |-> info],
                    actions |-> buttons]
    /\ nyield' = nyield + 1
    /\ pc' = "yield"
    /\ UNCHANGED <<movie, players, buttons, skip_first_step, movieOpen, emuOpen,
                   history>>

\* lines 38-43, emulator.step raising: the exception leaves the generator at
\* line 43; lines 47-48 are not reached.
LoopRaise ==
    /\ pc = "l38"
    /\ cursor < Len(movie)
    /\ cursor' = cursor + 1
    /\ log' = log \o << LogEntry("movie.step", cursor', <<>>),
                        LogEntry("emulator.step", cursor',
                                 BuildKeys(movie[cursor'], players, Len(buttons))) >>
    /\ pc' = "raised"
    /\ UNCHANGED <<movie, players, buttons, skip_first_step, movieOpen, emuOpen,
                   rec, nyield, history>>

\* lines 38, 47-48: movie.step() false ends the loop; close both handles.
LoopExit ==
    /\ pc = "l38"
    /\ cursor >= Len(movie)
    /\ log' = log \o << LogEntry("movie.step.end", cursor, <<>>),
                        LogEntry("emulator.close", 0, <<>>),
                        LogEntry("movie.close", 0, <<>>) >>
    /\ emuOpen' = FALSE
    /\ movieOpen' = FALSE
    /\ pc' = "returned"
    /\ UNCHANGED <<movie, players, buttons, skip_first_step, cursor, rec, nyield,
                   history>>

\* The consumer pulls the next record: next(generator).
Pull ==
    /\ pc \in {"created", "yield"}
    /\ pc' = IF pc = "created" THEN "l28" ELSE "l38"
    /\ UNCHANGED <<movie, players, buttons, skip_first_step, cursor, movieOpen,
                   emuOpen, log, rec, nyield, history>>

\* The consumer stops early: generator.close(), or the generator is dropped and
\* collected.  GeneratorExit is raised at the suspended yield (line 46); no
\* try/finally encloses it, so the frame unwinds without running lines 47-48.
Close ==
    /\ pc \in {"created", "yield"}
    /\ pc' = "closed"
    /\ UNCHANGED <<movie, players, buttons, skip_first_step, cursor, movieOpen,
                   emuOpen, log, rec, nyield, history>>

\* The consumer's loop ends on StopIteration: it has every record of this replay.
Exhausted ==
    /\ pc = "returned"
    /\ pc' = "consumed"
    /\ history' = [history EXCEPT ![skip_first_step] = nyield]
    /\ UNCHANGED <<movie, players, buttons, skip_first_step, cursor, movieOpen,
                   emuOpen, log, rec, nyield>>

\* replay_bk2 is called again on the same bk2 file with the other flag value.
NewReplay ==
    /\ pc = "consumed"
    /\ history[~skip_first_step] = -1
    /\ skip_first_step' = ~skip_first_step
    /\ pc' = "created"
    /\ cursor' = 0
    /\ log' = <<>>
    /\ rec' = NoRec
    /\ nyield' = 0
    /\ UNCHANGED <<movie, players, buttons, movieOpen, emuOpen, history>>

GenStep == Begin \/ MakeFails \/ SkipFirst \/ LoopYield \/ LoopRaise \/ LoopExit

InitIdleCaller ==
    /\ gvr = "idle"
    /\ replay_keys = <<>>
    /\ replay_info = <<>>
    /\ replay_frames = <<>>
    /\ annotations = EmptyDict
    /\ actionsVar = Unbound
    /\ warned = FALSE
    /\ result = NoneVal

InitIdleReformat ==
    /\ args = [info |-> <<>>, keys |-> <<>>, bk2_fpath |-> <<>>, actions |-> <<>>]
    /\ ret = NoneVal
    /\ rpc = "idle"

InitIdleMp4 ==
    /\ mp4pc = "idle"
    /\ nframes = 0
    /\ written = 0
    /\ audio = "None"
    /\ sample_rate = "None"
    /\ fs = {}
    /\ mux = "none"
    /\ cleanup_failed = FALSE
    /\ outcome = "running"

InitIdleImg ==
    /\ fn = "none"
    /\ selected_frames = <<>>
    /\ frame_list = <<>>
    /\ ipc = "idle"
    /\ writes = <<>>
    /\ warnings = 0
    /\ ioutcome = "running"

InitIdleGen ==
    /\ players = 1
    /\ buttons = <<>>
    /\ movie = <<>>
    /\ skip_first_step = FALSE
    /\ pc = "idle"
    /\ cursor = 0
    /\ movieOpen = FALSE
    /\ emuOpen = FALSE
    /\ log = <<>>
    /\ rec = NoRec
    /\ nyield = 0
    /\ history = NoHistory

Init == InitGen /\ InitIdleCaller /\ InitIdleReformat /\ InitIdleMp4 /\ InitIdleImg

Next ==
    \/ Begin /\ UNCHANGED <<cvars, rvars, mvars, ivars>>
    \/ MakeFails /\ UNCHANGED <<cvars, rvars, mvars, ivars>>
    \/ SkipFirst /\ UNCHANGED <<cvars, rvars, mvars, ivars>>
    \/ LoopYield /\ UNCHANGED <<cvars, rvars, mvars, ivars>>
    \/ LoopRaise /\ UNCHANGED <<cvars, rvars, mvars, ivars>>
    \/ LoopExit /\ UNCHANGED <<cvars, rvars, mvars, ivars>>
    \/ Pull /\ UNCHANGED <<cvars, rvars, mvars, ivars>>
    \/ Close /\ UNCHANGED <<cvars, rvars, mvars, ivars>>
    \/ Exhausted /\ UNCHANGED <<cvars, rvars, mvars, ivars>>
    \/ NewReplay /\ UNCHANGED <<cvars, rvars, mvars, ivars>>

Spec == Init /\ [][Next]_vars

\* ---------------------------------------------------------- reformat_info
\* A path is a sequence of text chunks; the chunks "/", "_" and "-" are the
\* separator characters and no other chunk contains one of them.
IndicesOf(s, c) == { i \in 1..Len(s) : s[i] = c }
MaxOf(S) == CHOOSE x \in S : \A y \in S : y <= x
MinOf(S) == CHOOSE x \in S : \A y \in S : x <= y

\* line 89: op.basename
Basename(path) ==
    IF IndicesOf(path, "/") = {} THEN path
    ELSE SubSeq(path, MaxOf(IndicesOf(path, "/")) + 1, Len(path))

\* line 90: str.split(sep)
RECURSIVE Split(_, _)
Split(s, sep) ==
    IF IndicesOf(s, sep) = {} THEN << s >>
    ELSE LET i == MinOf(IndicesOf(s, sep))
         IN << SubSeq(s, 1, i - 1) >> \o Split(SubSeq(s, i + 1, Len(s)), sep)

\* line 94: ent.split("-", 1)
EntKey(ent) == SubSeq(ent, 1, MinOf(IndicesOf(ent, "-")) - 1)
EntValue(ent) == SubSeq(ent, MinOf(IndicesOf(ent, "-")) + 1, Len(ent))

\* lines 91-95: a later token with the same key overwrites an earlier one
EntitiesDict(entities) ==
    LET dashed == { i \in 1..Len(entities) : IndicesOf(entities[i], "-") # {} }
    IN [ k \in { EntKey(entities[i]) : i \in dashed } |->
           EntValue(entities[MaxOf({ i \in dashed : EntKey(entities[i]) = k })]) ]

\* dict.get(key): None when the key is missing
DictGet(d, k) == IF k \in DOMAIN d THEN Str(d[k]) ELSE NoneVal

DictSetAll(d, K, val) ==
    [ x \in (DOMAIN d) \cup K |-> IF x \in K THEN val ELSE d[x] ]

SeqRange(s) == { s[i] : i \in 1..Len(s) }

\* lines 97-103
InitialVariables(bk2_fpath, actions) ==
    LET ed == EntitiesDict(Split(Basename(bk2_fpath), "_"))
    IN [ k \in {"filename", "level", "subject", "session", "actions"} |->
           CASE k = "filename" -> Str(bk2_fpath)
             [] k = "level"    -> DictGet(ed, << "level" >>)
             [] k = "subject"  -> DictGet(ed, << "sub" >>)
             [] k = "session"  -> DictGet(ed, << "ses" >>)
             [] k = "actions"  -> List(actions) ]

\* lines 111-112: KeyError for a key with no entry, AttributeError for an entry
\* that is no list (a str or None metadata field)
AppendInfo(rv, frame_info) ==
    IF \E k \in DOMAIN frame_info : k \notin DOMAIN rv THEN Raise("KeyError")
    ELSE IF \E k \in DOMAIN frame_info : rv[k].t # "list" THEN Raise("AttributeError")
    ELSE Ok([ x \in DOMAIN rv |->
                IF x \in DOMAIN frame_info
                  THEN List(Append(rv[x].v, frame_info[x]))
                  ELSE rv[x] ])

\* lines 113-114, from button_idx j on (1-based here); row = keys[frame_idx]
RECURSIVE AppendButtons(_, _, _, _)
AppendButtons(rv, row, actions, j) ==
    IF j > Len(actions) THEN Ok(rv)
    ELSE IF j > Len(row) THEN Raise("IndexError")
    ELSE AppendButtons(
           [rv EXCEPT ![actions[j]] = List(Append(rv[actions[j]].v, row[j]))],
           row, actions, j + 1)

\* lines 110-114, from frame f on (1-based here)
RECURSIVE AppendFrames(_, _, _, _, _)
AppendFrames(rv, info, keys, actions, f) ==
    IF f > Len(info) THEN Ok(rv)
    ELSE LET a == AppendInfo(rv, info[f]) IN
         IF a.t = "raise" THEN a
         ELSE IF Len(actions) > 0 /\ f > Len(keys) THEN Raise("IndexError")
         ELSE LET b == AppendButtons(a.v, IF f <= Len(keys) THEN keys[f] ELSE << >>,
                                     actions, 1) IN
              IF b.t = "raise" THEN b
              ELSE AppendFrames(b.v, info, keys, actions, f + 1)

\* lines 87-115; info[0] on an empty list raises IndexError (line 105)
reformat_info(info, keys, bk2_fpath, actions) ==
    IF Len(info) = 0 THEN Raise("IndexError")
    ELSE AppendFrames(
           DictSetAll(DictSetAll(InitialVariables(bk2_fpath, actions),
                                 DOMAIN info[1], List(<< >>)),
                      SeqRange(actions), List(<< >>)),
           info, keys, actions, 1)

\* ----------------------------------------------- get_variables_from_replay
Bk2Path == << "data", "/", "sub", "-", "01", "_", "ses", "-", "02", "_",
              "level", "-", "W1", "_", "run", "-", "1.bk2" >>

\* lines 59-71: the generator object is created, the lists are empty
InitCaller ==
    /\ gvr = "l73"
    /\ replay_keys = <<>>
    /\ replay_info = <<>>
    /\ replay_frames = <<>>
    /\ annotations = EmptyDict
    /\ actionsVar = Unbound
    /\ warned = FALSE
    /\ result = NoneVal

\* line 73: the for statement asks the generator for its next record
GvrPull ==
    /\ gvr = "l73"
    /\ pc = "created"
    /\ pc' = "l28"
    /\ UNCHANGED <<movie, players, buttons, skip_first_step, cursor, movieOpen,
                   emuOpen, log, rec, nyield, history>>
    /\ UNCHANGED <<cvars, rvars, mvars, ivars>>

\* lines 73-77: bind the loop variables to the yielded record, append, ask again
GvrBody ==
    /\ gvr = "l73"
    /\ pc = "yield"
    /\ annotations' = rec.annotations
    /\ actionsVar' = List(rec.actions)
    /\ replay_keys' = Append(replay_keys, rec.keys)
    /\ replay_info' = Append(replay_info, rec.annotations.info)
    /\ replay_frames' = Append(replay_frames, rec.frame)
    /\ pc' = "l38"
    /\ UNCHANGED <<movie, players, buttons, skip_first_step, cursor, movieOpen,
                   emuOpen, log, rec, nyield, history>>
    /\ UNCHANGED <<gvr, warned, result, rvars, mvars, ivars>>

\* an exception raised inside the generator passes through the for statement
GvrRaise ==
    /\ gvr = "l73"
    /\ pc = "raised"
    /\ gvr' = "raised"
    /\ result' = Raise("EmulatorError")
    /\ UNCHANGED gvars
    /\ UNCHANGED <<replay_keys, replay_info, replay_frames, annotations,
                   actionsVar, warned, rvars, mvars, ivars>>

\* lines 79-85, after StopIteration ended the loop.  `actions` is a local bound
\* only by the for statement: with no record it is unbound at line 79.
GvrFinish ==
    /\ gvr = "l73"
    /\ pc = "returned"
    /\ LET r == IF actionsVar.t = "unbound" THEN Raise("UnboundLocalError")
                ELSE reformat_info(replay_info, replay_keys, Bk2Path, actionsVar.v)
           done == IF "done" \in DOMAIN annotations THEN annotations["done"] ELSE 0
       IN IF r.t = "raise"
            THEN /\ gvr' = "raised"
                 /\ result' = r
                 /\ warned' = warned
            ELSE /\ gvr' = "returned"
                 /\ result' = r
                 /\ warned' = (done = 0)
    /\ UNCHANGED gvars
    /\ UNCHANGED <<replay_keys, replay_info, replay_frames, annotations, actionsVar,
                   rvars, mvars, ivars>>

InitGVR == InitGen /\ InitCaller /\ InitIdleReformat /\ InitIdleMp4 /\ InitIdleImg

NextGVR ==
    \/ Begin /\ UNCHANGED <<cvars, rvars, mvars, ivars>>
    \/ MakeFails /\ UNCHANGED <<cvars, rvars, mvars, ivars>>
    \/ SkipFirst /\ UNCHANGED <<cvars, rvars, mvars, ivars>>
    \/ LoopYield /\ UNCHANGED <<cvars, rvars, mvars, ivars>>
    \/ LoopRaise /\ UNCHANGED <<cvars, rvars, mvars, ivars>>
    \/ LoopExit /\ UNCHANGED <<cvars, rvars, mvars, ivars>>
    \/ GvrPull
    \/ GvrBody
    \/ GvrRaise
    \/ GvrFinish

SpecGVR == InitGVR /\ [][NextGVR]_vars

\* C8: a replay that ends without the done flag on its final record (a replay
\* with no record included) makes get_variables_from_replay log a warning and
\* return its result; it does not raise.
C8_NoDoneIsOnlyAWarning ==
    (gvr # "l73" /\ pc = "returned"
       /\ (Len(replay_info) = 0 \/ annotations["done"] = 0))
    => (gvr = "returned" /\ warned /\ result.t = "ok")

\* ======================================================== replay_bk2 claims
Terminated == pc \in {"returned", "raised", "closed", "consumed"}
Acquired == Len(log) >= 2

\* C1: once the movie and the emulator have been acquired, a terminated replay
\* (steps exhausted, consumer stopped early, emulator.step raised) has released
\* both the emulator and the movie.
C1_ReleasedOnEveryExit ==
    (Terminated /\ Acquired) => (~emuOpen /\ ~movieOpen)

\* C4: with skip_first_step disabled a fully consumed replay of a movie with N
\* steps yields exactly N records, and each yielded key vector has
\* players * num_buttons entries, player-major, buttons in emulator order.
C4_CountAndKeyLayout ==
    ~skip_first_step =>
        /\ pc \in {"returned", "consumed"} => nyield = Len(movie)
        /\ pc = "yield" =>
              /\ Len(rec.keys) = players * Len(buttons)
              /\ \A p \in 0..(players - 1), i \in 0..(Len(buttons) - 1) :
                    rec.keys[p * Len(buttons) + i + 1] = get_key(movie[cursor], i, p)

C4_Witness ==
    /\ ~skip_first_step
    /\ pc = "returned"
    /\ nyield = 2
    /\ players = 2
    /\ Len(buttons) = 2
    /\ rec.keys = <<0, 1, 1, 0>>

BothConsumed == history[TRUE] # -1 /\ history[FALSE] # -1

\* C5 (as stated): for every movie, N >= 0 included, the fully consumed replay
\* with skip_first_step yields exactly one record fewer than the one without.
C5_OneFewerAlways ==
    BothConsumed => history[TRUE] = history[FALSE] - 1

\* C5 (amended): for a movie with at least one step the replay with
\* skip_first_step yields exactly one record fewer than the one without; for a
\* movie with no step both yield no record.
C5_OneFewerWhenNonEmpty ==
    BothConsumed =>
        IF Len(movie) >= 1
          THEN history[TRUE] = history[FALSE] - 1
          ELSE history[TRUE] = 0 /\ history[FALSE] = 0

C5_Witness ==
    /\ BothConsumed
    /\ Len(movie) = 2
    /\ history[TRUE] = 1
    /\ history[FALSE] = 2

EmuSteps == { i \in 1..Len(log) : log[i].op = "emulator.step" }
MovieSteps == { i \in 1..Len(log) : log[i].op = "movie.step" }

\* C10: the movie's state is attached, then the emulator is reset, then (only
\* with skip_first_step) the movie cursor is advanced once, then the loop runs;
\* no emulator step comes before the reset; every emulator step directly follows
\* one movie step and receives that step's keys; the skipped step's keys are
\* never fed and no movie step is fed twice.
C10_OperationOrder ==
    /\ Len(log) >= 1 => log[1].op = "set_initial_state"
    /\ Len(log) >= 2 => log[2].op = "reset"
    /\ \A i \in 3..Len(log) : log[i].op \notin {"set_initial_state", "reset"}
    /\ \A i \in EmuSteps :
          /\ i > 2
          /\ log[i - 1].op = "movie.step"
          /\ log[i - 1].idx = log[i].idx
          /\ log[i].keys = BuildKeys(movie[log[i].idx], players, Len(buttons))
          /\ skip_first_step => log[i].idx # 1
    /\ \A i \in MovieSteps :
          \/ i = 3 /\ skip_first_step
          \/ i + 1 \in EmuSteps
    /\ \A i \in EmuSteps, j \in EmuSteps : i < j => log[i].idx < log[j].idx
    /\ \A i \in MovieSteps, j \in MovieSteps : i < j => log[i].idx < log[j].idx
    /\ (skip_first_step /\ Len(log) >= 3) => log[3].op \in {"movie.step", "movie.step.end"}
    /\ (~skip_first_step /\ Len(log) >= 3) => 3 \notin MovieSteps \/ 4 \in EmuSteps

C10_Witness ==
    /\ skip_first_step
    /\ Len(movie) = 2
    /\ pc = "returned"
    /\ Cardinality(EmuSteps) = 1
    /\ Cardinality(MovieSteps) = 2

\* ================================================= reformat_info on its own
MaxInfoFrames == 2   \* longest info list
MaxTokens == 2       \* most "_"-separated tokens in a base name

\* the info mappings of one frame: any key set, keys that are also a button
\* name ("A") or a metadata field ("level") included
FrameInfos ==
    UNION { [S -> {2, 3}] : S \in SUBSET {"score", "A"} }

ActionLists == { << >>, << "A" >>, << "A", "B" >>, << "A", "A" >> }

\* key vectors of n frames, each with len entries
KeyRows(n, len) == [1..n -> [1..len -> {0, 1}]]

Tokens ==
    { << "sub", "-", "01" >>, << "ses", "-", "02" >>, << "level", "-", "W1" >>,
      << "level", "-", "W1", "-", "b" >>, << "run", "-", "1.bk2" >>,
      << "task" >>, << "sub", "-", "03" >> }

Dirs == { << >>, << "sub", "-", "99", "_", "x", "/" >> }

RECURSIVE JoinTokens(_)
JoinTokens(ts) ==
    IF Len(ts) = 0 THEN << >>
    ELSE IF Len(ts) = 1 THEN ts[1]
    ELSE ts[1] \o << "_" >> \o JoinTokens(Tail(ts))

Paths ==
    { d \o JoinTokens(ts) :
        d \in Dirs, ts \in UNION { [1..n -> Tokens] : n \in 1..MaxTokens } }

\* inputs that vary the frames, the key vectors and the action names
InitFrames ==
    /\ \E n \in 0..MaxInfoFrames, acts \in ActionLists :
         \E inf \in [1..n -> FrameInfos],
            ks \in KeyRows(n, Len(acts)) \cup KeyRows(n, Len(acts) + 1) :
           args = [info |-> inf, keys |-> ks, bk2_fpath |-> Bk2Path, actions |-> acts]
    /\ ret = NoneVal
    /\ rpc = "call"

\* inputs that vary the file path
InitPaths ==
    /\ \E path \in Paths,
          inf \in { << [score |-> 2] >>, << [score |-> 2, level |-> 7] >>,
                    << [score |-> 2], [score |-> 3] >> },
          acts \in { << "A" >>, << "A", "session" >> } :
         args = [info |-> inf, keys |-> [i \in 1..Len(inf) |-> [j \in 1..Len(acts) |-> 1]],
                 bk2_fpath |-> path, actions |-> acts]
    /\ ret = NoneVal
    /\ rpc = "call"

CallReformat ==
    /\ rpc = "call"
    /\ ret' = reformat_info(args.info, args.keys, args.bk2_fpath, args.actions)
    /\ rpc' = "done"
    /\ UNCHANGED args
    /\ UNCHANGED <<gvars, cvars, mvars, ivars>>

InitReformat ==
    /\ InitFrames \/ InitPaths
    /\ InitIdleGen /\ InitIdleCaller /\ InitIdleMp4 /\ InitIdleImg

NextReformat == CallReformat

SpecReformat == InitReformat /\ [][NextReformat]_vars

\* the sequence values of the returned record: one per info key of any frame
\* and one per action name
SequenceFields ==
    UNION { DOMAIN args.info[i] : i \in 1..Len(args.info) } \cup SeqRange(args.actions)

\* C3: for N >= 1 frames, any key vectors and any action list, reformat_info
\* returns a record in which every sequence value has length N and
\* result[actions[j]][i] = keys[i][j], whatever the info mappings are (key sets
\* that differ between frames, keys that are also action names).
C3_AlignedSequences ==
    (rpc = "done" /\ Len(args.info) >= 1
       /\ \A i \in 1..Len(args.keys) : Len(args.keys[i]) >= Len(args.actions))
    => /\ ret.t = "ok"
       /\ \A k \in SequenceFields :
            /\ k \in DOMAIN ret.v
            /\ ret.v[k].t = "list"
            /\ Len(ret.v[k].v) = Len(args.info)
       /\ \A i \in 1..Len(args.info), j \in 1..Len(args.actions) :
            ret.v[args.actions[j]].v[i] = args.keys[i][j]

SameVal(a, b) == a.t = b.t /\ (a.t = "str" => a.v = b.v)

\* the value of the last token `name-...` of the base name, None without one
RECURSIVE TokenValue(_, _)
TokenValue(tokens, name) ==
    IF Len(tokens) = 0 THEN NoneVal
    ELSE LET last == tokens[Len(tokens)] IN
         IF Len(last) >= 2 /\ last[1] = name /\ last[2] = "-"
           THEN Str(SubSeq(last, 3, Len(last)))
           ELSE TokenValue(SubSeq(tokens, 1, Len(tokens) - 1), name)

BaseTokens == Split(Basename(args.bk2_fpath), "_")

\* C6: for a non-empty info list reformat_info returns a record whose subject,
\* session and level are the values of the sub-, ses- and level- tokens of the
\* base name (None without such a token), whatever the info keys and the
\* action names are; a missing token raises nothing.
C6_FilenameFields ==
    (rpc = "done" /\ Len(args.info) >= 1)
    => /\ Len(args.info) = 1 => ret.t = "ok"
       /\ ret.t = "ok" =>
            /\ SameVal(ret.v["subject"], TokenValue(BaseTokens, "sub"))
            /\ SameVal(ret.v["session"], TokenValue(BaseTokens, "ses"))
            /\ SameVal(ret.v["level"], TokenValue(BaseTokens, "level"))

\* ================================================================= make_mp4
MaxMp4Frames == 2   \* most frames handed to make_mp4

TempArtifacts == {"temp_dir", "temp_video", "temp_audio"}

InitMp4Call ==
    /\ mp4pc = "l43"
    /\ nframes \in 0..MaxMp4Frames
    /\ written = 0
    /\ audio \in {"None", "int16", "float"}
    /\ sample_rate \in {"None", "rate"}
    /\ fs \in { {}, {"final"} }
    /\ mux = "none"
    /\ cleanup_failed = FALSE
    /\ outcome = "running"

\* lines 43-48: mkdtemp creates the directory; the writer object starts no
\* encoder process yet
MkTemp ==
    /\ mp4pc = "l43"
    /\ fs' = fs \cup {"temp_dir"}
    /\ mp4pc' = "l49"
    /\ UNCHANGED <<nframes, written, audio, sample_rate, mux, cleanup_failed, outcome>>

\* lines 49-52, one frame: the encoder is started on the first frame and
\* creates video_only.mp4
WriteFrame ==
    /\ mp4pc = "l49"
    /\ written < nframes
    /\ written' = written + 1
    /\ fs' = fs \cup {"temp_video"}
    /\ UNCHANGED <<mp4pc, nframes, audio, sample_rate, mux, cleanup_failed, outcome>>

\* lines 49-52 raising (a frame of another shape, the encoder pipe broken): no
\* handler encloses the loop
WriteFrameFails ==
    /\ mp4pc = "l49"
    /\ written < nframes
    /\ \E created \in BOOLEAN :
         fs' = IF created THEN fs \cup {"temp_video"} ELSE fs
    /\ outcome' = "WriterError"
    /\ mp4pc' = "done"
    /\ UNCHANGED <<nframes, written, audio, sample_rate, mux, cleanup_failed>>

\* lines 53-55
CloseWriter ==
    /\ mp4pc = "l49"
    /\ written = nframes
    /\ mp4pc' = "l57"
    /\ UNCHANGED <<nframes, written, audio, sample_rate, fs, mux, cleanup_failed, outcome>>

\* lines 57-60: without audio or sample rate the video is moved to the final
\* path and the directory removed; Path.replace of a file that does not exist
\* raises FileNotFoundError
NoAudio ==
    /\ mp4pc = "l57"
    /\ audio = "None" \/ sample_rate = "None"
    /\ IF "temp_video" \in fs
         THEN /\ fs' = ((fs \ {"temp_video"}) \cup {"final"}) \ {"temp_dir"}
              /\ outcome' = "returned"
         ELSE /\ fs' = fs
              /\ outcome' = "FileNotFoundError"
    /\ mp4pc' = "done"
    /\ UNCHANGED <<nframes, written, audio, sample_rate, mux, cleanup_failed>>

\* lines 62-67: cast to int16 when needed, write audio.wav
WriteWav ==
    /\ mp4pc = "l57"
    /\ audio # "None" /\ sample_rate # "None"
    /\ audio' = "int16"
    /\ fs' = fs \cup {"temp_audio"}
    /\ mp4pc' = "l84"
    /\ UNCHANGED <<nframes, written, sample_rate, mux, cleanup_failed, outcome>>

\* lines 62-67 with write_wav raising: no handler encloses the call
WriteWavFails ==
    /\ mp4pc = "l57"
    /\ audio # "None" /\ sample_rate # "None"
    /\ audio' = "int16"
    /\ \E created \in BOOLEAN :
         fs' = IF created THEN fs \cup {"temp_audio"} ELSE fs
    /\ outcome' = "WavError"
    /\ mp4pc' = "done"
    /\ UNCHANGED <<nframes, written, sample_rate, mux, cleanup_failed>>

\* lines 90-92: unlink audio, unlink video, rmdir; an OSError at step k + 1
\* skips the rest (lines 93-94).  k = 3: all three succeed.
Cleanup(files, k) ==
    files \ ( (IF k >= 1 THEN {"temp_audio"} ELSE {})
              \cup (IF k >= 2 THEN {"temp_video"} ELSE {})
              \cup (IF k >= 3 THEN {"temp_dir"} ELSE {}) )

\* what leaves the try statement of lines 84-94 for each ffmpeg result
MuxOutcomeSwallow(m) ==
    CASE m = "missing" -> "RuntimeError"
      [] m = "nonzero" -> "returned"
      [] m = "zero"    -> "returned"

\* line 85 check=True raises CalledProcessError on a non-zero exit; lines 86-87
\* turn FileNotFoundError into RuntimeError; the finally clause re-raises
MuxOutcome(m) ==
    CASE m = "missing" -> "RuntimeError"
      [] m = "nonzero" -> "CalledProcessError"
      [] m = "zero"    -> "returned"

\* lines 84-94: one blocking ffmpeg run, then the cleanup of the finally clause
Mux ==
    /\ mp4pc = "l84"
    /\ \E m \in {"missing", "nonzero", "zero"}, k \in 0..3 :
         /\ m = "zero" => "temp_video" \in fs
         /\ mux' = m
         /\ outcome' = MuxOutcome(m)
         /\ cleanup_failed' = (k < 3)
         /\ fs' = Cleanup(IF m = "zero" THEN fs \cup {"final"} ELSE fs, k)
    /\ mp4pc' = "done"
    /\ UNCHANGED <<nframes, written, audio, sample_rate>>

InitMp4 == InitMp4Call /\ InitIdleGen /\ InitIdleCaller /\ InitIdleReformat /\ InitIdleImg

NextMp4 ==
    \/ MkTemp /\ UNCHANGED <<gvars, cvars, rvars, ivars>>
    \/ WriteFrame /\ UNCHANGED <<gvars, cvars, rvars, ivars>>
    \/ WriteFrameFails /\ UNCHANGED <<gvars, cvars, rvars, ivars>>
    \/ CloseWriter /\ UNCHANGED <<gvars, cvars, rvars, ivars>>
    \/ NoAudio /\ UNCHANGED <<gvars, cvars, rvars, ivars>>
    \/ WriteWav /\ UNCHANGED <<gvars, cvars, rvars, ivars>>
    \/ WriteWavFails /\ UNCHANGED <<gvars, cvars, rvars, ivars>>
    \/ Mux /\ UNCHANGED <<gvars, cvars, rvars, ivars>>

SpecMp4 == InitMp4 /\ [][NextMp4]_vars

\* C2: when make_mp4 ends, on any exit path (success with or without audio,
\* failure while writing frames or the waveform file, ffmpeg missing, ffmpeg
\* exiting non-zero), the temporary directory, the silent video and the
\* waveform file are gone.  Runs in which the cleanup itself hit an OSError
\* are set aside.
C2_TempArtifactsRemoved ==
    (mp4pc = "done" /\ ~cleanup_failed) => fs \cap TempArtifacts = {}

\* C7: with audio and a sample rate, a run that reaches the multiplexer ends as
\* the multiplexer decides: binary missing -> RuntimeError (the tool-missing
\* error), non-zero exit -> CalledProcessError (a distinct mux error), exit 0 ->
\* normal return with the final file written; no error is swallowed, and the
\* call has ended once ffmpeg has run (no second run).
C7_MuxDecidesOutcome ==
    /\ mux # "none" => /\ mp4pc = "done"
                       /\ sample_rate # "None"
                       /\ audio = "int16"
    /\ (mp4pc = "done" /\ mux = "missing") => outcome = "RuntimeError"
    /\ (mp4pc = "done" /\ mux = "nonzero") => outcome = "CalledProcessError"
    /\ (mp4pc = "done" /\ mux = "zero") => outcome = "returned" /\ "final" \in fs
    /\ (mp4pc = "l84") => mux = "none" /\ outcome = "running"

C7_Witness ==
    /\ mp4pc = "done"
    /\ mux = "nonzero"
    /\ outcome = "CalledProcessError"
    /\ nframes = 2
    /\ fs \cap TempArtifacts = {}

\* ======================================================= make_gif, make_webp
MaxImgFrames == 3   \* most frames handed to an exporter

\* a frame is stood for by one sample value of its pixel array
PixelVals == {0, 255, 300}

\* np.uint8(img): the cast wraps modulo 2^8
Uint8(x) == x % 256

InitImgCall ==
    /\ fn \in {"make_gif", "make_webp"}
    /\ selected_frames \in UNION { [1..n -> PixelVals] : n \in 0..MaxImgFrames }
    /\ frame_list = <<>>
    /\ ipc = "l17"
    /\ writes = <<>>
    /\ warnings = 0
    /\ ioutcome = "running"

\* lines 17 / 99
Convert ==
    /\ ipc = "l17"
    /\ frame_list' = [i \in 1..Len(selected_frames) |-> Uint8(selected_frames[i])]
    /\ ipc' = "l19"
    /\ UNCHANGED <<fn, selected_frames, writes, warnings, ioutcome>>

\* lines 19-21 / 101-103
WarnEmpty ==
    /\ ipc = "l19"
    /\ Len(frame_list) = 0
    /\ warnings' = warnings + 1
    /\ ioutcome' = "returned"
    /\ ipc' = "done"
    /\ UNCHANGED <<fn, selected_frames, frame_list, writes>>

\* (variant) save_all / append_images left out: only the first image is saved
SavedFramesFirstOnly(fl) == << fl[1] >>

\* frame_list[0].save(..., save_all=True, append_images=frame_list[1:])
SavedFrames(fl) == << fl[1] >> \o SubSeq(fl, 2, Len(fl))

\* lines 23-30
SaveGif ==
    /\ ipc = "l19"
    /\ fn = "make_gif"
    /\ Len(frame_list) > 0
    /\ writes' = Append(writes, [format |-> "GIF", frames |-> SavedFrames(frame_list)])
    /\ ioutcome' = "returned"
    /\ ipc' = "done"
    /\ UNCHANGED <<fn, selected_frames, frame_list, warnings>>

\* lines 105-114
SaveWebp ==
    /\ ipc = "l19"
    /\ fn = "make_webp"
    /\ Len(frame_list) > 0
    /\ writes' = Append(writes, [format |-> "WEBP", frames |-> SavedFrames(frame_list)])
    /\ ioutcome' = "returned"
    /\ ipc' = "done"
    /\ UNCHANGED <<fn, selected_frames, frame_list, warnings>>

InitImg == InitImgCall /\ InitIdleGen /\ InitIdleCaller /\ InitIdleReformat /\ InitIdleMp4

NextImg ==
    \/ Convert /\ UNCHANGED <<gvars, cvars, rvars, mvars>>
    \/ WarnEmpty /\ UNCHANGED <<gvars, cvars, rvars, mvars>>
    \/ SaveGif /\ UNCHANGED <<gvars, cvars, rvars, mvars>>
    \/ SaveWebp /\ UNCHANGED <<gvars, cvars, rvars, mvars>>

SpecImg == InitImg /\ [][NextImg]_vars

\* C9: with an empty frame sequence make_gif and make_webp write no file, log
\* one warning and return; with a non-empty one they write exactly one file
\* holding all frames in order (and log no warning).
C9_EmptyWarnsElseOneFile ==
    /\ ipc # "done" => writes = <<>> /\ warnings = 0
    /\ ipc = "done" =>
         /\ ioutcome = "returned"
         /\ IF Len(selected_frames) = 0
              THEN writes = <<>> /\ warnings = 1
              ELSE /\ warnings = 0
                   /\ Len(writes) = 1
                   /\ writes[1].format = (IF fn = "make_gif" THEN "GIF" ELSE "WEBP")
                   /\ Len(writes[1].frames) = Len(selected_frames)
                   /\ \A i \in 1..Len(selected_frames) :
                        writes[1].frames[i] = selected_frames[i] % 256

C9_Witness ==
    /\ ipc = "done"
    /\ fn = "make_webp"
    /\ selected_frames = << 300, 0, 255 >>
    /\ Len(writes) = 1

C9_WitnessEmpty ==
    /\ ipc = "done"
    /\ Len(selected_frames) = 0
    /\ warnings = 1

====
